---- MODULE Spec2Model ----
(***************************************************************************)
(* db-copy: copy of one table between SQLite and PostgreSQL databases.     *)
(* The model covers internal/db (NewCopier, Connect, getSourceSchema,      *)
(* convertDataType, ensureTableExists, Copy), internal/cmd (runCopy) and   *)
(* cmd/main (exit code).  Database servers and the GORM layer are the      *)
(* environment: each call on them either succeeds or returns an error.     *)
(* Strings whose characters matter (type names, connection descriptors)    *)
(* are sequences of one-character strings.                                 *)
(***************************************************************************)
EXTENDS Integers, Sequences, FiniteSets, TLC

(* ------------------------------ bounds -------------------------------- *)
MaxRows == 4
MaxBatch == 3
MaxJobs == 2
MaxCalls == 5
MaxFrags == 2
MaxCols == 2

(* --------------------------- string literals --------------------------- *)
kwINTEGER == <<"I", "N", "T", "E", "G", "E", "R">>
kwREAL == <<"R", "E", "A", "L">>
kwTEXT == <<"T", "E", "X", "T">>
kwBLOB == <<"B", "L", "O", "B">>
kwBOOLEAN == <<"B", "O", "O", "L", "E", "A", "N">>
kwDATETIME == <<"D", "A", "T", "E", "T", "I", "M", "E">>
kwNUMERIC == <<"N", "U", "M", "E", "R", "I", "C">>
kwDOUBLE_PRECISION == <<"D", "O", "U", "B", "L", "E", " ", "P", "R", "E", "C", "I", "S", "I", "O", "N">>
kwBYTEA == <<"B", "Y", "T", "E", "A">>
kwTIMESTAMP == <<"T", "I", "M", "E", "S", "T", "A", "M", "P">>
kwBIGINT == <<"B", "I", "G", "I", "N", "T">>
kwSMALLINT == <<"S", "M", "A", "L", "L", "I", "N", "T">>
kwDECIMAL == <<"D", "E", "C", "I", "M", "A", "L">>
kwVARCHAR == <<"V", "A", "R", "C", "H", "A", "R">>
kwCHAR == <<"C", "H", "A", "R">>
kwCHARACTER_VARYING == <<"C", "H", "A", "R", "A", "C", "T", "E", "R", " ", "V", "A", "R", "Y", "I", "N", "G">>
kwTIMESTAMP_WITHOUT_TIME_ZONE == <<"T", "I", "M", "E", "S", "T", "A", "M", "P", " ", "W", "I", "T", "H", "O", "U", "T", " ", "T", "I", "M", "E", " ", "Z", "O", "N", "E">>
kwTIMESTAMP_WITH_TIME_ZONE == <<"T", "I", "M", "E", "S", "T", "A", "M", "P", " ", "W", "I", "T", "H", " ", "T", "I", "M", "E", " ", "Z", "O", "N", "E">>
lcInteger == <<"i", "n", "t", "e", "g", "e", "r">>
lcReal == <<"R", "e", "a", "l">>
lcText == <<"t", "e", "x", "t">>
lcBlob == <<"b", "l", "o", "b">>
lcBoolean == <<"B", "o", "o", "l", "e", "a", "n">>
lcDatetime == <<"d", "a", "t", "e", "t", "i", "m", "e">>
lcNumeric == <<"n", "u", "m", "e", "r", "i", "c">>
lcBigint == <<"b", "i", "g", "i", "n", "t">>
lcDoublePrecision == <<"d", "o", "u", "b", "l", "e", " ", "p", "r", "e", "c", "i", "s", "i", "o", "n">>
lcCharacterVarying == <<"c", "h", "a", "r", "a", "c", "t", "e", "r", " ", "v", "a", "r", "y", "i", "n", "g">>
lcTimestampTz == <<"t", "i", "m", "e", "s", "t", "a", "m", "p", " ", "w", "i", "t", "h", " ", "t", "i", "m", "e", " ", "z", "o", "n", "e">>
lcVarchar == <<"v", "a", "r", "c", "h", "a", "r">>
wSize == <<"(", "2", "5", "5", ")">>
wSpace == <<" ">>
descSQLite == <<"t", "e", "s", "t", ".", "d", "b">>
descPostgres == <<"p", "o", "s", "t", "g", "r", "e", "s", ":", "/", "/", "u", "@", "h", "/", "d", "b">>
prefixPostgres == <<"p", "o", "s", "t", "g", "r", "e", "s", ":", "/", "/">>
LowerChars == <<"a", "b", "c", "d", "e", "f", "g", "h", "i", "j", "k", "l", "m", "n", "o", "p", "q", "r", "s", "t", "u", "v", "w", "x", "y", "z">>
UpperChars == <<"A", "B", "C", "D", "E", "F", "G", "H", "I", "J", "K", "L", "M", "N", "O", "P", "Q", "R", "S", "T", "U", "V", "W", "X", "Y", "Z">>

(* ---------------------------- string helpers --------------------------- *)
\* strings.ToUpper, restricted to the ASCII letters
ToUpperChar(c) ==
  IF \E k \in 1..Len(LowerChars) : LowerChars[k] = c
  THEN UpperChars[CHOOSE k \in 1..Len(LowerChars) : LowerChars[k] = c]
  ELSE c

ToUpper(s) == [k \in 1..Len(s) |-> ToUpperChar(s[k])]

\* strings.Contains
Contains(s, substr) ==
  \E k \in 0..(Len(s) - Len(substr)) : SubSeq(s, k + 1, k + Len(substr)) = substr

\* strings.HasPrefix
HasPrefix(s, prefix) ==
  Len(s) >= Len(prefix) /\ SubSeq(s, 1, Len(prefix)) = prefix

(* ------------------------------ dialects ------------------------------- *)
DBTypeSQLite == 0
DBTypePostgres == 1

DBTypes == {DBTypeSQLite, DBTypePostgres}

\* (variant: the test is for the word postgres alone)
DBTypeOfLoose(descriptor) ==
  IF HasPrefix(descriptor, SubSeq(prefixPostgres, 1, 8)) THEN DBTypePostgres
  ELSE DBTypeSQLite

\* NewCopier: the dialect of one endpoint
DBTypeOf(descriptor) ==
  IF HasPrefix(descriptor, prefixPostgres) THEN DBTypePostgres ELSE DBTypeSQLite

(* ---------------------------- convertDataType -------------------------- *)
\* (variant: the SQLite branch compares for equality instead of searching)
SQLiteToPostgresExact(sourceType) ==
  IF sourceType = kwINTEGER THEN kwINTEGER
  ELSE IF sourceType = kwREAL THEN kwDOUBLE_PRECISION
  ELSE IF sourceType = kwTEXT THEN kwTEXT
  ELSE IF sourceType = kwBLOB THEN kwBYTEA
  ELSE IF sourceType = kwBOOLEAN THEN kwBOOLEAN
  ELSE IF sourceType = kwDATETIME THEN kwTIMESTAMP
  ELSE IF sourceType = kwNUMERIC THEN kwNUMERIC
  ELSE kwTEXT

SQLiteToPostgres(sourceType) ==
  IF Contains(sourceType, kwINTEGER) THEN kwINTEGER
  ELSE IF Contains(sourceType, kwREAL) THEN kwDOUBLE_PRECISION
  ELSE IF Contains(sourceType, kwTEXT) THEN kwTEXT
  ELSE IF Contains(sourceType, kwBLOB) THEN kwBYTEA
  ELSE IF Contains(sourceType, kwBOOLEAN) THEN kwBOOLEAN
  ELSE IF Contains(sourceType, kwDATETIME) THEN kwTIMESTAMP
  ELSE IF Contains(sourceType, kwNUMERIC) THEN kwNUMERIC
  ELSE kwTEXT

PostgresToSQLite(sourceType) ==
  IF sourceType \in {kwBIGINT, kwINTEGER, kwSMALLINT} THEN kwINTEGER
  ELSE IF sourceType \in {kwDOUBLE_PRECISION, kwREAL, kwNUMERIC, kwDECIMAL} THEN kwREAL
  ELSE IF sourceType \in {kwTEXT, kwVARCHAR, kwCHAR, kwCHARACTER_VARYING} THEN kwTEXT
  ELSE IF sourceType = kwBYTEA THEN kwBLOB
  ELSE IF sourceType = kwBOOLEAN THEN kwBOOLEAN
  ELSE IF sourceType \in {kwTIMESTAMP, kwTIMESTAMP_WITHOUT_TIME_ZONE,
                          kwTIMESTAMP_WITH_TIME_ZONE} THEN kwDATETIME
  ELSE kwTEXT

\* (variant: the same-dialect shortcut is missing)
convertDataTypeNoPassthrough(sourceType, fromDB, toDB) ==
  LET upper == ToUpper(sourceType) IN
  IF fromDB = DBTypeSQLite THEN SQLiteToPostgres(upper)
  ELSE IF fromDB = DBTypePostgres THEN PostgresToSQLite(upper)
  ELSE kwTEXT

convertDataType(sourceType, fromDB, toDB) ==
  LET upper == ToUpper(sourceType) IN
  IF fromDB = toDB THEN upper
  ELSE IF fromDB = DBTypeSQLite THEN SQLiteToPostgres(upper)
  ELSE IF fromDB = DBTypePostgres THEN PostgresToSQLite(upper)
  ELSE kwTEXT

(* ------------------------- schema introspection ------------------------ *)
\* Catalog rows of the source table: name, declared type, not-null flag and
\* primary-key rank (0 when the column is not part of the key).
CatalogUsers ==
  << [name |-> "id",    type |-> lcInteger,         notnull |-> 1, pk |-> 1],
     [name |-> "email", type |-> lcVarchar \o wSize, notnull |-> 1, pk |-> 0],
     [name |-> "bio",   type |-> kwTEXT,            notnull |-> 0, pk |-> 0] >>

CatalogPairs ==
  << [name |-> "a", type |-> kwINTEGER, notnull |-> 1, pk |-> 1],
     [name |-> "b", type |-> lcBigint,  notnull |-> 1, pk |-> 2],
     [name |-> "v", type |-> lcReal,    notnull |-> 0, pk |-> 0] >>

Catalogs == {CatalogUsers, CatalogPairs}

\* One Column of getSourceSchema
Column(name, type, isNullable, isPrimary) ==
  [Name |-> name, Type |-> type, IsNullable |-> isNullable, IsPrimary |-> isPrimary]

\* getSourceSchema reading PRAGMA table_info / information_schema.columns:
\* a table that is not in the catalog yields no rows and no error.
getSourceSchemaCatalog(rows, fromDB, toDB) ==
  [k \in 1..Len(rows) |->
     Column(rows[k].name,
            convertDataType(rows[k].type, fromDB, toDB),
            rows[k].notnull = 0,
            IF fromDB = DBTypeSQLite THEN rows[k].pk = 1 ELSE rows[k].pk # 0)]

\* getSourceSchema reading Migrator().ColumnTypes and the primary-key query
getSourceSchemaMigrator(rows, fromDB, toDB) ==
  [k \in 1..Len(rows) |->
     Column(rows[k].name,
            convertDataType(rows[k].type, fromDB, toDB),
            rows[k].notnull = 0,
            rows[k].pk > 0)]

\* The two versions of internal/db the repository holds
Builds == {"catalog", "migrator"}

getSourceSchema(b, rows, fromDB, toDB) ==
  IF b = "catalog" THEN getSourceSchemaCatalog(rows, fromDB, toDB)
  ELSE getSourceSchemaMigrator(rows, fromDB, toDB)

(* ---------------------------- CREATE TABLE ----------------------------- *)
\* (variant: NOT NULL is written before PRIMARY KEY)
columnDefNotNullFirst(col) ==
  [name |-> col.Name,
   type |-> col.Type,
   tail |-> (IF ~col.IsNullable THEN <<" NOT NULL">> ELSE << >>)
            \o (IF col.IsPrimary THEN <<" PRIMARY KEY">> ELSE << >>)]

\* One column definition: "<name> <type>" [" PRIMARY KEY"] [" NOT NULL"]
columnDef(col) ==
  [name |-> col.Name,
   type |-> col.Type,
   tail |-> (IF col.IsPrimary THEN <<" PRIMARY KEY">> ELSE << >>)
            \o (IF ~col.IsNullable THEN <<" NOT NULL">> ELSE << >>)]

TableName == "sample_users"

createTableSQL(columns) ==
  [table |-> TableName, columnDefs |-> [k \in 1..Len(columns) |-> columnDef(columns[k])]]

\* db.go: the definition is built inside switch c.destDBType, one branch per
\* destination dialect; with neither, def stays the empty string
columnDefPostgres(col) ==
  [name |-> col.Name,
   type |-> col.Type,
   tail |-> (IF col.IsPrimary THEN <<" PRIMARY KEY">> ELSE << >>)
            \o (IF ~col.IsNullable THEN <<" NOT NULL">> ELSE << >>)]

columnDefSQLite(col) ==
  [name |-> col.Name,
   type |-> col.Type,
   tail |-> (IF col.IsPrimary THEN <<" PRIMARY KEY">> ELSE << >>)
            \o (IF ~col.IsNullable THEN <<" NOT NULL">> ELSE << >>)]

columnDefFor(col, destType) ==
  CASE destType = DBTypePostgres -> columnDefPostgres(col)
    [] destType = DBTypeSQLite   -> columnDefSQLite(col)
    [] OTHER                     -> [name |-> "", type |-> << >>, tail |-> << >>]

\* The statement ensureTableExists executes, in either version
createTableSQLFor(b, columns, destType) ==
  IF b = "catalog"
  THEN [table |-> TableName,
        columnDefs |-> [k \in 1..Len(columns) |-> columnDefFor(columns[k], destType)]]
  ELSE createTableSQL(columns)

\* What the destination does with the statement: a column list that is empty
\* is a syntax error in SQLite, and two PRIMARY KEY column constraints are
\* rejected by both backends.
DDLAcceptable(stmt, dialect) ==
  /\ Cardinality({k \in 1..Len(stmt.columnDefs) :
                    Len(stmt.columnDefs[k].tail) > 0
                    /\ stmt.columnDefs[k].tail[1] = " PRIMARY KEY"}) <= 1
  /\ (dialect = DBTypeSQLite => Len(stmt.columnDefs) > 0)

(* ------------------------------- batching ------------------------------ *)
\* (variant: the end of the batch is taken one short)
BatchEndOneShort(i_, batchSize, totalRecords_) ==
  IF i_ + batchSize > totalRecords_ THEN totalRecords_ ELSE i_ + batchSize - 1

\* end := i + c.BatchSize; if end > totalRecords { end = totalRecords }
BatchEnd(i_, batchSize, totalRecords_) ==
  IF i_ + batchSize > totalRecords_ THEN totalRecords_ ELSE i_ + batchSize

\* (variant: every batch is cut from the start of the records)
BatchFromStart(recs, i_, end) == SubSeq(recs, 1, end - i_)

\* records[i:end]
Batch(recs, i_, end) == SubSeq(recs, i_ + 1, end)

(* -------------------------------- errors ------------------------------- *)
\* An error is the sequence of its message parts, outermost wrapper first;
\* nil is the empty sequence.  DriverErr is whatever the driver reported.
DriverErr == "driver error"
nil == << >>

ErrConnectSource == <<"failed to connect to source database: ", DriverErr>>
ErrConnectDest   == <<"failed to connect to destination database: ", DriverErr>>
ErrSchema(b)     == <<"failed to get source table schema: ",
                      IF b = "catalog" THEN "failed to get table schema: "
                      ELSE "failed to get column types: ", DriverErr>>
ErrCreateTable   == <<"failed to create table: ", DriverErr>>
ErrRead          == <<"failed to read from source table: ", DriverErr>>
ErrInsert        == <<"failed to insert batch into destination table: ", DriverErr>>
ErrCommit        == <<"failed to commit transaction: ", DriverErr>>

(* -------------------------------- state -------------------------------- *)
VARIABLES
  build,          \* which version of internal/db is built
  SourceDB,       \* Copier.SourceDB
  DestDB,         \* Copier.DestDB
  BatchSize,      \* Copier.BatchSize (the --batch-size flag)
  sourceDBType,   \* Copier.sourceDBType
  destDBType,     \* Copier.destDBType
  srcHasTable,    \* the source database has the table
  srcCatalog,     \* its catalog rows
  srcRows,        \* its rows, in the order the source returns them
  destHasTable,   \* the destination database has the table
  destRows,       \* the rows visible (committed) in the destination table
  destBefore,     \* destRows when the running job started
  destHadTable,   \* destHasTable when the running job started
  pc,             \* position of the process in runCopy / Copy
  records,        \* Copy: records
  i,              \* Copy: loop variable i
  txState,        \* Copy: tx ("none", "open", "invalid", "committed", "rolledback")
  txRows,         \* rows inserted in tx and not yet committed
  creates,        \* the batches handed to tx.Create, in call order
  progress,       \* the "Copied end/total" lines printed, as <<end, total>>
  retErr,         \* the error runCopy returns
  exitCode,       \* exit code of the process (-1 while it runs)
  ddlLog,         \* CREATE TABLE statements executed on the destination, all jobs
  ops,            \* database operations issued by the running job, in order
  jobs,           \* number of processes started so far
  tin,            \* convertDataType: sourceType
  tfrom,          \* convertDataType: fromDB
  tto,            \* convertDataType: toDB
  tout,           \* convertDataType: result
  tdone,          \* convertDataType has been applied
  treapplied,     \* << >>, or <<r>> with r convertDataType applied to its own result
  opened,         \* Connect: the drivers handed to gorm.Open, in call order
  columns         \* ensureTableExists: columns, as getSourceSchema returned them

config   == <<build, SourceDB, DestDB, sourceDBType, destDBType>>
source   == <<srcHasTable, srcCatalog, srcRows>>
typeVars == <<tin, tfrom, tto, tout, tdone>>
jobStart == <<destBefore, destHadTable, jobs, BatchSize>>

vars == <<build, SourceDB, DestDB, BatchSize, sourceDBType, destDBType,
          srcHasTable, srcCatalog, srcRows, destHasTable, destRows, destBefore,
          destHadTable, pc, records, i, txState, txRows, creates, progress,
          retErr, exitCode, ddlLog, ops, jobs, tin, tfrom, tto, tout, tdone,
          treapplied, opened, columns>>

Descriptors == {descSQLite, descPostgres}
BatchSizes  == {0 - 1} \cup (0..MaxBatch)

totalRecords == Len(records)

Count(op) == Cardinality({k \in 1..Len(ops) : ops[k] = op})

(* --------------------------------- Init -------------------------------- *)
Init ==
  /\ build \in Builds
  /\ SourceDB \in Descriptors
  /\ DestDB \in Descriptors
  /\ BatchSize \in BatchSizes
  /\ sourceDBType = DBTypeOf(SourceDB)
  /\ destDBType = DBTypeOf(DestDB)
  /\ srcHasTable \in BOOLEAN
  /\ srcCatalog \in (IF srcHasTable THEN Catalogs ELSE {<< >>})
  /\ srcRows \in (IF srcHasTable THEN {[k \in 1..n |-> k] : n \in 0..MaxRows}
                  ELSE {<< >>})
  /\ destHasTable \in BOOLEAN
  /\ destRows = << >>
  /\ destBefore = << >>
  /\ destHadTable = destHasTable
  /\ pc = "start"
  /\ records = << >>
  /\ i = 0
  /\ txState = "none"
  /\ txRows = << >>
  /\ creates = << >>
  /\ progress = << >>
  /\ retErr = nil
  /\ exitCode = 0 - 1
  /\ ddlLog = << >>
  /\ ops = << >>
  /\ jobs = 1
  /\ tin = << >> /\ tfrom = DBTypeSQLite /\ tto = DBTypeSQLite
  /\ tout = << >> /\ tdone = FALSE /\ treapplied = << >>
  /\ opened = << >>
  /\ columns = << >>

(* ----------------------------- runCopy: Connect ------------------------ *)
\* switch c.sourceDBType / c.destDBType: the driver gorm.Open is given
Driver(dbType) ==
  IF dbType = DBTypePostgres THEN "postgres"
  ELSE IF dbType = DBTypeSQLite THEN "sqlite"
  ELSE "none"

Return(err) ==
  /\ retErr' = err
  /\ pc' = "returned"

ConnectSourceFail ==
  /\ pc = "start"
  /\ opened' = <<Driver(sourceDBType)>>
  /\ ops' = Append(ops, "connect source")
  /\ Return(ErrConnectSource)
  /\ UNCHANGED <<config, source, treapplied, columns, typeVars, jobStart, destHasTable, destRows,
                 records, i, txState, txRows, creates, progress, exitCode, ddlLog>>

ConnectDestFail ==
  /\ pc = "start"
  /\ opened' = <<Driver(sourceDBType), Driver(destDBType)>>
  /\ ops' = ops \o <<"connect source", "connect dest">>
  /\ Return(ErrConnectDest)
  /\ UNCHANGED <<config, source, treapplied, columns, typeVars, jobStart, destHasTable, destRows,
                 records, i, txState, txRows, creates, progress, exitCode, ddlLog>>

ConnectOk ==
  /\ pc = "start"
  /\ opened' = <<Driver(sourceDBType), Driver(destDBType)>>
  /\ ops' = ops \o <<"connect source", "connect dest">>
  /\ pc' = "ensure"
  /\ UNCHANGED <<config, source, treapplied, columns, typeVars, jobStart, destHasTable, destRows,
                 records, i, txState, txRows, creates, progress, exitCode, ddlLog,
                 retErr>>

(* ------------------------ Copy: ensureTableExists ---------------------- *)
\* (variant: the existence check always reports the table absent)
HasTableNever == FALSE

\* c.destConn.Migrator().HasTable(c.TableName)
HasTable == destHasTable

\* HasTable reports the table: nothing else is done
EnsureHasTable ==
  /\ pc = "ensure"
  /\ HasTable
  /\ ops' = Append(ops, "has table")
  /\ pc' = "fetch"
  /\ UNCHANGED <<config, source, treapplied, opened, columns, typeVars, jobStart, destHasTable, destRows,
                 records, i, txState, txRows, creates, progress, exitCode, ddlLog,
                 retErr>>

\* getSourceSchema returns an error: the catalog query failed, or (ColumnTypes
\* only) the source has no such table
SchemaQueryFails(b, hasTable, driverFails) ==
  driverFails \/ (b = "migrator" /\ ~hasTable)

EnsureSchemaFail ==
  /\ pc = "ensure"
  /\ ~HasTable
  /\ \E driverFails \in BOOLEAN : SchemaQueryFails(build, srcHasTable, driverFails)
  /\ ops' = ops \o <<"has table", "introspect">>
  /\ Return(ErrSchema(build))
  /\ UNCHANGED <<config, source, treapplied, opened, columns, typeVars, jobStart, destHasTable, destRows,
                 records, i, txState, txRows, creates, progress, exitCode, ddlLog>>

EnsureCreateFail ==
  /\ pc = "ensure"
  /\ ~HasTable
  /\ ~SchemaQueryFails(build, srcHasTable, FALSE)
  /\ columns' = getSourceSchema(build, srcCatalog, sourceDBType, destDBType)
  /\ LET stmt == createTableSQLFor(build, columns', destDBType)
     IN  ddlLog' = Append(ddlLog, stmt)
  /\ ops' = ops \o <<"has table", "introspect", "ddl">>
  /\ Return(ErrCreateTable)
  /\ UNCHANGED <<config, source, treapplied, opened, typeVars, jobStart, destHasTable, destRows,
                 records, i, txState, txRows, creates, progress, exitCode>>

EnsureCreateOk ==
  /\ pc = "ensure"
  /\ ~HasTable
  /\ ~SchemaQueryFails(build, srcHasTable, FALSE)
  /\ columns' = getSourceSchema(build, srcCatalog, sourceDBType, destDBType)
  /\ LET stmt == createTableSQLFor(build, columns', destDBType)
     IN  /\ DDLAcceptable(stmt, destDBType)
         /\ ddlLog' = Append(ddlLog, stmt)
  /\ ops' = ops \o <<"has table", "introspect", "ddl">>
  /\ destHasTable' = TRUE
  /\ pc' = "fetch"
  /\ UNCHANGED <<config, source, treapplied, opened, typeVars, jobStart, destRows,
                 records, i, txState, txRows, creates, progress, exitCode, retErr>>

(* ------------------------------ Copy: fetch ---------------------------- *)
\* (variant: the read stops after the first row, the rest is left for later)
FetchOkFirstRow ==
  /\ pc = "fetch"
  /\ srcHasTable
  /\ ops' = Append(ops, "read")
  /\ records' = SubSeq(srcRows, 1, IF Len(srcRows) > 1 THEN 1 ELSE Len(srcRows))
  /\ pc' = "begin"
  /\ UNCHANGED <<config, source, treapplied, opened, columns, typeVars, jobStart, destHasTable, destRows,
                 i, txState, txRows, creates, progress, exitCode, ddlLog, retErr>>

FetchFail ==
  /\ pc = "fetch"
  /\ ops' = Append(ops, "read")
  /\ Return(ErrRead)
  /\ UNCHANGED <<config, source, treapplied, opened, columns, typeVars, jobStart, destHasTable, destRows,
                 records, i, txState, txRows, creates, progress, exitCode, ddlLog>>

FetchOk ==
  /\ pc = "fetch"
  /\ srcHasTable
  /\ ops' = Append(ops, "read")
  /\ records' = srcRows
  /\ pc' = "begin"
  /\ UNCHANGED <<config, source, treapplied, opened, columns, typeVars, jobStart, destHasTable, destRows,
                 i, txState, txRows, creates, progress, exitCode, ddlLog, retErr>>

(* ------------------------------ Copy: Begin ---------------------------- *)
\* tx := c.destConn.Begin(); tx.Error is not looked at
Begin ==
  /\ pc = "begin"
  /\ ops' = Append(ops, "begin")
  /\ txState' \in {"open", "invalid"}
  /\ txRows' = << >>
  /\ i' = 0
  /\ pc' = "loop"
  /\ UNCHANGED <<config, source, treapplied, opened, columns, typeVars, jobStart, destHasTable, destRows,
                 records, creates, progress, exitCode, ddlLog, retErr>>

(* ---------------------------- Copy: batch loop ------------------------- *)
\* records[i:end] with end < i panics; the deferred function recovers, rolls
\* back, and Copy returns the zero value of its result
InsertPanic ==
  /\ pc = "loop"
  /\ i < totalRecords
  /\ BatchEnd(i, BatchSize, totalRecords) < i
  /\ ops' = Append(ops, "rollback")
  /\ txState' = "rolledback"
  /\ txRows' = << >>
  /\ Return(nil)
  /\ UNCHANGED <<config, source, treapplied, opened, columns, typeVars, jobStart, destHasTable, destRows,
                 records, i, creates, progress, exitCode, ddlLog>>

InsertOk ==
  /\ pc = "loop"
  /\ i < totalRecords
  /\ Len(creates) < MaxCalls
  /\ txState = "open"
  /\ LET end   == BatchEnd(i, BatchSize, totalRecords)
         batch == Batch(records, i, end)
     IN  /\ end >= i
         /\ creates' = Append(creates, batch)
         /\ txRows' = txRows \o batch
         /\ progress' = Append(progress, <<end, totalRecords>>)
  /\ ops' = Append(ops, "insert")
  /\ i' = i + BatchSize
  /\ UNCHANGED <<config, source, treapplied, opened, columns, typeVars, jobStart, destHasTable, destRows,
                 records, txState, exitCode, ddlLog, retErr, pc>>

\* (variant: the failure branch commits what was inserted so far)
InsertFailCommits ==
  /\ pc = "loop"
  /\ i < totalRecords
  /\ Len(creates) < MaxCalls
  /\ LET end   == BatchEnd(i, BatchSize, totalRecords)
         batch == Batch(records, i, end)
     IN  /\ end >= i
         /\ creates' = Append(creates, batch)
  /\ ops' = ops \o <<"insert", "commit">>
  /\ txState' = "committed"
  /\ destRows' = destRows \o txRows
  /\ txRows' = << >>
  /\ Return(ErrInsert)
  /\ UNCHANGED <<config, source, treapplied, opened, columns, typeVars, jobStart, destHasTable,
                 records, i, progress, exitCode, ddlLog>>

\* (variant: a failed chunk is passed over and the loop goes on)
InsertFailContinues ==
  /\ pc = "loop"
  /\ i < totalRecords
  /\ Len(creates) < MaxCalls
  /\ LET end   == BatchEnd(i, BatchSize, totalRecords)
         batch == Batch(records, i, end)
     IN  /\ end >= i
         /\ creates' = Append(creates, batch)
  /\ ops' = Append(ops, "insert")
  /\ i' = i + BatchSize
  /\ UNCHANGED <<config, source, treapplied, opened, columns, typeVars, jobStart, destHasTable, destRows,
                 records, txState, txRows, progress, exitCode, ddlLog, retErr, pc>>

InsertFail ==
  /\ pc = "loop"
  /\ i < totalRecords
  /\ Len(creates) < MaxCalls
  /\ LET end   == BatchEnd(i, BatchSize, totalRecords)
         batch == Batch(records, i, end)
     IN  /\ end >= i
         /\ creates' = Append(creates, batch)
  /\ ops' = ops \o <<"insert", "rollback">>
  /\ txState' = "rolledback"
  /\ txRows' = << >>
  /\ Return(ErrInsert)
  /\ UNCHANGED <<config, source, treapplied, opened, columns, typeVars, jobStart, destHasTable, destRows,
                 records, i, progress, exitCode, ddlLog>>

(* ------------------------------ Copy: Commit --------------------------- *)
CommitOk ==
  /\ pc = "loop"
  /\ i >= totalRecords
  /\ txState = "open"
  /\ ops' = Append(ops, "commit")
  /\ destRows' = destRows \o txRows
  /\ txRows' = << >>
  /\ txState' = "committed"
  /\ Return(nil)
  /\ UNCHANGED <<config, source, treapplied, opened, columns, typeVars, jobStart, destHasTable,
                 records, i, creates, progress, exitCode, ddlLog>>

\* (variant: the commit error branch also calls tx.Rollback())
CommitFailThenRollback ==
  /\ pc = "loop"
  /\ i >= totalRecords
  /\ ops' = ops \o <<"commit", "rollback">>
  /\ txRows' = << >>
  /\ txState' = "rolledback"
  /\ Return(ErrCommit)
  /\ UNCHANGED <<config, source, treapplied, opened, columns, typeVars, jobStart, destHasTable, destRows,
                 records, i, creates, progress, exitCode, ddlLog>>

\* the backend rejects the commit and discards the transaction
CommitFail ==
  /\ pc = "loop"
  /\ i >= totalRecords
  /\ ops' = Append(ops, "commit")
  /\ txRows' = << >>
  /\ txState' = "rolledback"
  /\ Return(ErrCommit)
  /\ UNCHANGED <<config, source, treapplied, opened, columns, typeVars, jobStart, destHasTable, destRows,
                 records, i, creates, progress, exitCode, ddlLog>>

(* --------------------------------- main -------------------------------- *)
Exit ==
  /\ pc = "returned"
  /\ exitCode' = IF retErr = nil THEN 0 ELSE 1
  /\ pc' = "exited"
  /\ UNCHANGED <<config, source, treapplied, opened, columns, typeVars, jobStart, destHasTable, destRows,
                 records, i, txState, txRows, creates, progress, ddlLog, ops, retErr>>

\* the command is run again on the same two databases
Restart ==
  /\ pc = "exited"
  /\ jobs < MaxJobs
  /\ jobs' = jobs + 1
  /\ BatchSize' \in BatchSizes
  /\ destBefore' = destRows
  /\ destHadTable' = destHasTable
  /\ pc' = "start"
  /\ records' = << >>
  /\ i' = 0
  /\ txState' = "none"
  /\ txRows' = << >>
  /\ creates' = << >>
  /\ progress' = << >>
  /\ retErr' = nil
  /\ exitCode' = 0 - 1
  /\ ops' = << >>
  /\ opened' = << >>
  /\ columns' = << >>
  /\ UNCHANGED <<config, source, treapplied, typeVars, destHasTable, destRows, ddlLog>>

Next ==
  \/ ConnectSourceFail \/ ConnectDestFail \/ ConnectOk
  \/ EnsureHasTable \/ EnsureSchemaFail \/ EnsureCreateFail \/ EnsureCreateOk
  \/ FetchFail \/ FetchOk
  \/ Begin
  \/ InsertPanic \/ InsertOk \/ InsertFail
  \/ CommitOk \/ CommitFail
  \/ Exit \/ Restart

Spec == Init /\ [][Next]_vars

(* ------------------- convertDataType on its own inputs ----------------- *)
\* Type names handed to convertDataType: up to MaxFrags words run together,
\* in upper case or in lower case.
TypeWords ==
  { kwINTEGER, kwREAL, kwTEXT, kwBLOB, kwBOOLEAN, kwDATETIME, kwNUMERIC,
    kwBIGINT, kwSMALLINT, kwDOUBLE_PRECISION, kwDECIMAL, kwVARCHAR, kwCHAR,
    kwCHARACTER_VARYING, kwBYTEA, kwTIMESTAMP, kwTIMESTAMP_WITHOUT_TIME_ZONE,
    kwTIMESTAMP_WITH_TIME_ZONE, wSize, wSpace }

RECURSIVE Phrases(_)
Phrases(n) ==
  IF n = 0 THEN {<< >>}
  ELSE LET shorter == Phrases(n - 1)
       IN  shorter \cup {a \o w : a \in shorter, w \in TypeWords}

ToLowerChar(c) ==
  IF \E k \in 1..Len(UpperChars) : UpperChars[k] = c
  THEN LowerChars[CHOOSE k \in 1..Len(UpperChars) : UpperChars[k] = c]
  ELSE c

WithCase(s, mode) ==
  [k \in 1..Len(s) |->
     IF mode = "lower" THEN ToLowerChar(s[k]) ELSE s[k]]

TypeInputs == {WithCase(s, mode) : s \in Phrases(MaxFrags), mode \in {"upper", "lower"}}

TypeInit ==
  /\ build = "catalog"
  /\ SourceDB = descSQLite /\ DestDB = descPostgres
  /\ BatchSize = 1
  /\ sourceDBType = DBTypeOf(SourceDB)
  /\ destDBType = DBTypeOf(DestDB)
  /\ srcHasTable = FALSE /\ srcCatalog = << >> /\ srcRows = << >>
  /\ destHasTable = FALSE /\ destRows = << >> /\ destBefore = << >>
  /\ destHadTable = FALSE
  /\ pc = "types"
  /\ records = << >> /\ i = 0 /\ txState = "none" /\ txRows = << >>
  /\ creates = << >> /\ progress = << >> /\ retErr = nil
  /\ exitCode = 0 - 1 /\ ddlLog = << >> /\ ops = << >> /\ jobs = 1
  /\ tin \in TypeInputs
  /\ tfrom \in DBTypes
  /\ tto \in DBTypes
  /\ tout = << >>
  /\ tdone = FALSE
  /\ treapplied = << >>
  /\ opened = << >>
  /\ columns = << >>

ConvertType ==
  /\ pc = "types"
  /\ ~tdone
  /\ tout' = convertDataType(tin, tfrom, tto)
  /\ tdone' = TRUE
  /\ UNCHANGED <<config, source, treapplied, opened, columns, jobStart, destHasTable, destRows, pc, records,
                 i, txState, txRows, creates, progress, retErr, exitCode,
                 ddlLog, ops, tin, tfrom, tto>>

\* convertDataType applied to the type it returned
ConvertAgain ==
  /\ pc = "types"
  /\ tdone
  /\ treapplied = << >>
  /\ treapplied' = <<convertDataType(tout, tfrom, tto)>>
  /\ UNCHANGED <<config, source, opened, columns, typeVars, jobStart, destHasTable,
                 destRows, pc, records, i, txState, txRows, creates, progress,
                 retErr, exitCode, ddlLog, ops>>

TypeNext == ConvertType \/ ConvertAgain

TypeSpec == TypeInit /\ [][TypeNext]_vars

(* ---------------------- NewCopier on more descriptors ------------------ *)
\* Descriptors around the postgres:// prefix: the empty string, the prefix
\* alone, the prefix cut short, other schemes, other case, file names.
descPrefixCut  == <<"p", "o", "s", "t", "g", "r", "e", "s", ":", "/">>
descFileName   == <<"p", "o", "s", "t", "g", "r", "e", "s", ".", "d", "b">>
descPostgresql == <<"p", "o", "s", "t", "g", "r", "e", "s", "q", "l", ":", "/", "/", "u", "@", "h", "/", "d", "b">>
descUpperCase  == <<"P", "O", "S", "T", "G", "R", "E", "S", ":", "/", "/", "u", "@", "h", "/", "d", "b">>
descInner      == <<"/", "t", "m", "p", "/", "p", "o", "s", "t", "g", "r", "e", "s", ":", "/", "/", "d", "b">>

DescriptorInputs ==
  { << >>, descSQLite, descPostgres, prefixPostgres, descPrefixCut, descFileName,
    descPostgresql, descUpperCase, descInner }

DialectInit ==
  /\ build \in Builds
  /\ SourceDB \in DescriptorInputs
  /\ DestDB \in DescriptorInputs
  /\ BatchSize = 1
  /\ sourceDBType = DBTypeOf(SourceDB)
  /\ destDBType = DBTypeOf(DestDB)
  /\ srcHasTable = TRUE
  /\ srcCatalog = (IF srcHasTable THEN CatalogUsers ELSE << >>)
  /\ srcRows = (IF srcHasTable THEN <<1, 2>> ELSE << >>)
  /\ destHasTable = FALSE
  /\ destRows = << >>
  /\ destBefore = << >>
  /\ destHadTable = destHasTable
  /\ pc = "start"
  /\ records = << >> /\ i = 0 /\ txState = "none" /\ txRows = << >>
  /\ creates = << >> /\ progress = << >> /\ retErr = nil
  /\ exitCode = 0 - 1 /\ ddlLog = << >> /\ ops = << >> /\ jobs = 1
  /\ tin = << >> /\ tfrom = DBTypeSQLite /\ tto = DBTypeSQLite
  /\ tout = << >> /\ tdone = FALSE /\ treapplied = << >>
  /\ opened = << >>
  /\ columns = << >>

DialectSpec == DialectInit /\ [][Next]_vars

(* -------------- getSourceSchema and the statement on more tables ------- *)
\* Catalogs of up to MaxCols columns: every choice of declared type and
\* not-null flag, and every choice of key columns, ranked 1, 2, ... in column
\* order.
SchemaNames == <<"a", "b", "c", "d", "e", "f">>
SchemaTypes == {lcInteger, lcVarchar \o wSize}

KeyRank(keys, k) ==
  IF k \in keys THEN Cardinality({j \in keys : j <= k}) ELSE 0

SchemaCatalogs ==
  UNION { { [k \in 1..n |-> [name |-> SchemaNames[k], type |-> types[k],
                             notnull |-> flags[k], pk |-> KeyRank(keys, k)]] :
              types \in [1..n -> SchemaTypes],
              flags \in [1..n -> {0, 1}],
              keys \in SUBSET (1..n) } : n \in 0..MaxCols }

SchemaInit ==
  /\ build \in Builds
  /\ SourceDB \in Descriptors
  /\ DestDB \in Descriptors
  /\ BatchSize = 1
  /\ sourceDBType = DBTypeOf(SourceDB)
  /\ destDBType = DBTypeOf(DestDB)
  /\ srcHasTable = TRUE
  /\ srcCatalog \in SchemaCatalogs
  /\ srcRows = << >>
  /\ destHasTable = FALSE /\ destRows = << >> /\ destBefore = << >>
  /\ destHadTable = FALSE
  /\ pc = "schema"
  /\ records = << >> /\ i = 0 /\ txState = "none" /\ txRows = << >>
  /\ creates = << >> /\ progress = << >> /\ retErr = nil
  /\ exitCode = 0 - 1 /\ ddlLog = << >> /\ ops = << >> /\ jobs = 1
  /\ tin = << >> /\ tfrom = DBTypeSQLite /\ tto = DBTypeSQLite
  /\ tout = << >> /\ tdone = FALSE /\ treapplied = << >>
  /\ opened = << >>
  /\ columns = << >>

\* ensureTableExists up to the statement it builds
Synthesize ==
  /\ pc = "schema"
  /\ ddlLog = << >>
  /\ columns' = getSourceSchema(build, srcCatalog, sourceDBType, destDBType)
  /\ ddlLog' = <<createTableSQLFor(build, columns', destDBType)>>
  /\ ops' = <<"introspect", "ddl">>
  /\ UNCHANGED <<config, source, treapplied, opened, typeVars, jobStart, destHasTable,
                 destRows, pc, records, i, txState, txRows, creates, progress,
                 retErr, exitCode>>

SchemaNext == Synthesize

SchemaSpec == SchemaInit /\ [][SchemaNext]_vars

(* ======================================================================= *)
(*                               properties                                *)
(* ======================================================================= *)
RECURSIVE Flatten(_)
Flatten(ss) == IF ss = << >> THEN << >> ELSE Head(ss) \o Flatten(Tail(ss))

Min(a, b) == IF a < b THEN a ELSE b
CeilDiv(n, b) == (n + b - 1) \div b

CopyRan      == Count("has table") >= 1
Returned     == pc \in {"returned", "exited"}
InsertFailed == Count("insert") > Len(progress)

\* C1: with batchSize B >= 1 and N fetched rows, Copy issues at most
\* ceil(N/B) bulk inserts and exactly that many once it reaches the commit
\* (no insert failed); insert k carries B rows, except that insert ceil(N/B)
\* carries the remaining N - (ceil(N/B)-1)*B rows; and the k-th progress line
\* is (min(k*B, N), N).  N = 0 gives no insert at all.
C1_BatchPartition ==
  (BatchSize >= 1 /\ pc \in {"loop", "returned", "exited"}) =>
    LET N     == totalRecords
        B     == BatchSize
        calls == CeilDiv(N, B)
    IN  /\ Len(creates) <= calls
        /\ \A k \in 1..Len(creates) :
              Len(creates[k]) = IF k < calls THEN B ELSE N - (calls - 1) * B
        /\ \A k \in 1..Len(progress) : progress[k] = <<Min(k * B, N), N>>
        /\ (Count("commit") = 1 =>
              Len(creates) = calls /\ Len(progress) = calls)

C1_Witness ==
  /\ pc = "exited" /\ retErr = nil
  /\ BatchSize = 2 /\ totalRecords = 3
  /\ Len(creates) = 2 /\ Len(creates[2]) = 1
  /\ progress = << <<2, 3>>, <<3, 3>> >>

\* C2: when Copy succeeds with batchSize >= 1, the batches handed to the
\* inserts, concatenated in call order, are the fetched source rows, and the
\* destination table has grown by exactly those rows.
C2_BatchesAreTheRows ==
  (BatchSize >= 1 /\ Returned /\ CopyRan /\ retErr = nil) =>
    /\ records = srcRows
    /\ Flatten(creates) = records
    /\ destRows = destBefore \o records
    /\ Len(destRows) = Len(destBefore) + Len(srcRows)

C2_Witness ==
  /\ pc = "exited" /\ retErr = nil /\ jobs = 1
  /\ BatchSize = 3 /\ Len(srcRows) = 4
  /\ creates = << <<1, 2, 3>>, <<4>> >>
  /\ destRows = <<1, 2, 3, 4>>

\* C3: when a batch insert fails, Copy rolls the transaction back, issues no
\* commit, returns the insert error, and the destination table holds the rows
\* it held before the job started.
C3_InsertFailureRollsBack ==
  InsertFailed =>
    /\ Returned
    /\ retErr = ErrInsert
    /\ Count("rollback") = 1
    /\ Count("commit") = 0
    /\ txState = "rolledback"
    /\ txRows = << >>
    /\ destRows = destBefore

C3_Witness ==
  /\ InsertFailed /\ pc = "exited"
  /\ Len(creates) = 3 /\ Len(progress) = 2
  /\ ~destHadTable /\ destRows = << >>

CountIn(log, op) == Cardinality({k \in 1..Len(log) : log[k] = op})
CommitRejected == Count("commit") = 1 /\ txState # "committed"

\* C4 as stated: every execution of Copy opens exactly one transaction.
C4_ExactlyOneTransaction ==
  (CopyRan /\ Returned) => Count("begin") = 1

\* C4, amended: Copy begins at most one transaction on the destination, and
\* exactly one in every execution whose table check and source read succeeded
\* (none otherwise, and then neither commit nor rollback is issued); commit is
\* issued at most once and only after every batch insert has succeeded; commit
\* and rollback are never both issued; and when the backend rejects the commit
\* Copy returns the commit error and no row of the job is visible.
C4_OneTransaction ==
  /\ Count("begin") <= 1
  /\ (Returned /\ Count("read") = 1 /\ retErr # ErrRead => Count("begin") = 1)
  /\ (Count("begin") = 0 =>
        Count("insert") = 0 /\ Count("commit") = 0 /\ Count("rollback") = 0)
  /\ Count("commit") <= 1
  /\ (Count("commit") = 1 =>
        /\ ~InsertFailed
        /\ Flatten(creates) = records
        /\ i >= totalRecords)
  /\ ~(Count("commit") >= 1 /\ Count("rollback") >= 1)
  /\ (CommitRejected => Returned /\ retErr = ErrCommit /\ destRows = destBefore)

C4_Witness ==
  /\ CommitRejected /\ pc = "exited"
  /\ Len(creates) = 2 /\ Len(records) = 4
  /\ Count("begin") = 1

\* C5: when the destination already has the table, ensureTableExists succeeds
\* without introspecting the source and without executing DDL; DDL is executed
\* only when the existence check reports the table absent; a call that
\* succeeds leaves the table in place, so a job started on a destination that
\* has the table (a second call after a first that created it) executes no
\* CREATE TABLE and returns no schema error.
C5_EnsureTableIdempotent ==
  [][ /\ (pc = "ensure" /\ destHasTable =>
            /\ pc' = "fetch"
            /\ retErr' = nil
            /\ ddlLog' = ddlLog
            /\ CountIn(ops', "introspect") = 0
            /\ CountIn(ops', "ddl") = 0)
      /\ (ddlLog' # ddlLog => pc = "ensure" /\ ~destHasTable)
      /\ (pc = "ensure" /\ pc' = "fetch" => destHasTable')
      /\ (destHasTable => destHasTable')
      /\ (destHadTable' /\ pc' # "start" =>
            /\ CountIn(ops', "ddl") = 0
            /\ retErr' \notin {ErrSchema(build), ErrCreateTable}) ]_vars

C5_Witness ==
  /\ jobs = 2 /\ pc = "fetch"
  /\ Len(ddlLog) = 1 /\ destHadTable
  /\ ops = <<"connect source", "connect dest", "has table">>

\* C6: when the table is absent from the source and from the destination, no
\* CREATE TABLE is executed on the destination and Copy returns the
\* introspection error.
C6_MissingSourceTable ==
  (~srcHasTable /\ ~destHadTable) =>
    /\ Count("ddl") = 0
    /\ (CopyRan /\ Returned => retErr = ErrSchema(build))

\* C7: with a batch size of 0 or less, a job that reports success has
\* inserted all the source rows.
C7_NonPositiveBatchSize ==
  (BatchSize <= 0 /\ CopyRan /\ Returned /\ retErr = nil) =>
    destRows = destBefore \o srcRows

\* C8: the process exits 0 exactly when the transaction was committed after
\* all rows were inserted; a job whose transaction was rolled back returns an
\* error and exits non-zero.
C8_SuccessIffCommitted ==
  pc = "exited" =>
    /\ (exitCode = 0 <=>
          /\ retErr = nil
          /\ txState = "committed"
          /\ destRows = destBefore \o srcRows)
    /\ (txState = "rolledback" => retErr # nil /\ exitCode # 0)

\* C9: the error returned for a rejected batch insert names the table and the
\* first and last record of the failing batch.
C9_InsertErrorNamesRange ==
  (InsertFailed /\ BatchSize >= 1) =>
    LET parts == {retErr[k] : k \in 1..Len(retErr)}
        first == i + 1
        last  == BatchEnd(i, BatchSize, totalRecords)
    IN  /\ TableName \in parts
        /\ ToString(first) \in parts
        /\ ToString(last) \in parts

\* C10: between different dialects convertDataType follows the documented
\* table.  From SQLite, the result is the target of the first of INTEGER, REAL,
\* TEXT, BLOB, BOOLEAN, DATETIME, NUMERIC (in this order) that occurs in the
\* upper-cased input; from Postgres, the result is decided by the upper-cased
\* input as a whole; anything else gives TEXT.
DocKeywords == <<kwINTEGER, kwREAL, kwTEXT, kwBLOB, kwBOOLEAN, kwDATETIME, kwNUMERIC>>
DocTargets  == <<kwINTEGER, kwDOUBLE_PRECISION, kwTEXT, kwBYTEA, kwBOOLEAN,
                 kwTIMESTAMP, kwNUMERIC>>

DocSQLiteToPostgres(u) ==
  LET hits == {k \in 1..Len(DocKeywords) : Contains(u, DocKeywords[k])}
  IN  IF hits = {} THEN kwTEXT
      ELSE DocTargets[CHOOSE k \in hits : \A j \in hits : k <= j]

DocPostgresToSQLite(u, out) ==
  /\ (out = kwINTEGER  <=> u \in {kwBIGINT, kwINTEGER, kwSMALLINT})
  /\ (out = kwREAL     <=> u \in {kwDOUBLE_PRECISION, kwREAL, kwNUMERIC, kwDECIMAL})
  /\ (out = kwBLOB     <=> u = kwBYTEA)
  /\ (out = kwBOOLEAN  <=> u = kwBOOLEAN)
  /\ (out = kwDATETIME <=> u \in {kwTIMESTAMP, kwTIMESTAMP_WITHOUT_TIME_ZONE,
                                  kwTIMESTAMP_WITH_TIME_ZONE})
  /\ (out = kwTEXT     <=> u \notin {kwBIGINT, kwINTEGER, kwSMALLINT,
                                     kwDOUBLE_PRECISION, kwREAL, kwNUMERIC, kwDECIMAL,
                                     kwBYTEA, kwBOOLEAN, kwTIMESTAMP,
                                     kwTIMESTAMP_WITHOUT_TIME_ZONE,
                                     kwTIMESTAMP_WITH_TIME_ZONE})

C10_ConversionTable ==
  (tdone /\ tfrom # tto) =>
    IF tfrom = DBTypeSQLite
    THEN tout = DocSQLiteToPostgres(ToUpper(tin))
    ELSE DocPostgresToSQLite(ToUpper(tin), tout)

C10_Witness ==
  /\ tdone /\ tfrom = DBTypeSQLite /\ tto = DBTypePostgres
  /\ tin = WithCase(kwREAL \o kwINTEGER, "lower")
  /\ tout = kwINTEGER

\* C11: between equal dialects convertDataType returns its input with every
\* lower-case letter replaced by its capital and nothing else changed, for
\* every input; applying it to its own result changes nothing.
UpperCased(in, out) ==
  /\ Len(out) = Len(in)
  /\ \A k \in 1..Len(in) :
       IF \E j \in 1..Len(LowerChars) : LowerChars[j] = in[k]
       THEN \E j \in 1..Len(LowerChars) : LowerChars[j] = in[k] /\ out[k] = UpperChars[j]
       ELSE out[k] = in[k]

C11_SameDialectPassthrough ==
  (tdone /\ tfrom = tto) =>
    /\ UpperCased(tin, tout)
    /\ (treapplied # << >> => treapplied[1] = tout)

C11_Witness ==
  /\ tdone /\ tfrom = DBTypePostgres /\ tto = DBTypePostgres
  /\ tin = WithCase(kwVARCHAR \o wSize, "lower")
  /\ tout = kwVARCHAR \o wSize
  /\ treapplied = <<tout>>

\* C12: an endpoint is Postgres exactly when its descriptor starts with
\* postgres://, and SQLite for every other string, the empty one included;
\* each endpoint is classified from its own descriptor alone; Connect opens
\* each endpoint with the driver of that dialect, and the schema is converted
\* from the source's dialect to the destination's.
DocPrefix == <<"p", "o", "s", "t", "g", "r", "e", "s", ":", "/", "/">>

DocDialect(descriptor) ==
  IF Len(descriptor) >= Len(DocPrefix)
     /\ \A k \in 1..Len(DocPrefix) : descriptor[k] = DocPrefix[k]
  THEN "postgres" ELSE "sqlite"

DocDBType(descriptor) ==
  IF DocDialect(descriptor) = "postgres" THEN DBTypePostgres ELSE DBTypeSQLite

C12_DialectClassification ==
  /\ sourceDBType = DocDBType(SourceDB)
  /\ destDBType = DocDBType(DestDB)
  /\ Len(opened) <= 2
  /\ (Len(opened) >= 1 => opened[1] = DocDialect(SourceDB))
  /\ (Len(opened) = 2 => opened[2] = DocDialect(DestDB))
  /\ (pc # "start" => Len(opened) >= 1)
  /\ (Count("introspect") = 1 /\ retErr # ErrSchema(build) =>
        /\ Len(columns) = Len(srcCatalog)
        /\ \A k \in 1..Len(columns) :
             columns[k].Type =
               convertDataType(srcCatalog[k].type, DocDBType(SourceDB), DocDBType(DestDB)))

C12_Witness ==
  /\ SourceDB = descPostgresql /\ DestDB = prefixPostgres
  /\ opened = <<"sqlite", "postgres">>
  /\ Len(columns) = 3
  /\ columns[2].Type = kwTEXT

\* C13: a job goes NotConnected -> Connected -> SchemaEnsured -> Copying ->
\* (Committed | RolledBack), one phase at a time and never backwards; the
\* existence check and the DDL come before the source read; the whole source
\* table has been read when the transaction is begun and when a chunk is
\* inserted; once Committed or RolledBack the job issues no database operation.
Phase ==
  IF txState = "committed" THEN "Committed"
  ELSE IF txState = "rolledback" THEN "RolledBack"
  ELSE IF txState \in {"open", "invalid"} THEN "Copying"
  ELSE IF pc \in {"fetch", "begin"} \/ Count("read") >= 1 THEN "SchemaEnsured"
  ELSE IF Len(opened) = 2 /\ retErr # ErrConnectDest THEN "Connected"
  ELSE "NotConnected"

PhaseSuccessors ==
  { <<"NotConnected", "Connected">>, <<"Connected", "SchemaEnsured">>,
    <<"SchemaEnsured", "Copying">>, <<"Copying", "Committed">>,
    <<"Copying", "RolledBack">> }

OpRank(op) ==
  CASE op = "connect source" -> 1
    [] op = "connect dest"   -> 2
    [] op = "has table"      -> 3
    [] op = "introspect"     -> 4
    [] op = "ddl"            -> 5
    [] op = "read"           -> 6
    [] op = "begin"          -> 7
    [] op = "insert"         -> 8
    [] OTHER                 -> 9

OpsInOrder ==
  /\ \A j, k \in 1..Len(ops) :
       j < k => \/ OpRank(ops[j]) < OpRank(ops[k])
                \/ (ops[j] = "insert" /\ ops[k] = "insert")
  /\ (ops # << >> => ops[1] = "connect source")
  /\ (Count("has table") >= 1 => Count("connect dest") = 1)
  /\ (Count("ddl") >= 1 => Count("introspect") = 1)
  /\ (Count("read") >= 1 => Count("has table") = 1)
  /\ (Count("begin") >= 1 => Count("read") = 1)
  /\ (Count("insert") >= 1 => Count("begin") = 1)
  /\ (Count("commit") + Count("rollback") >= 1 => Count("begin") = 1)

WholeTableRead ==
  (Count("begin") >= 1 \/ creates # << >>) => records = srcRows

PhaseStep ==
  \/ jobs' # jobs /\ Phase' = "NotConnected"
  \/ /\ jobs' = jobs
     /\ (Phase' = Phase \/ <<Phase, Phase'>> \in PhaseSuccessors)
     /\ (Phase \in {"Committed", "RolledBack"} =>
           /\ ops' = ops /\ creates' = creates /\ ddlLog' = ddlLog
           /\ destRows' = destRows /\ txState' = txState)

C13_PhaseOrder ==
  /\ [](OpsInOrder /\ WholeTableRead)
  /\ [][PhaseStep]_vars

C13_Witness ==
  /\ ops = <<"connect source", "connect dest", "has table", "introspect", "ddl",
             "read", "begin", "insert", "insert", "commit">>
  /\ Phase = "Committed"
  /\ pc = "exited"
  /\ Len(records) = 3

\* C14: no stage retries.  Each database operation of a job is attempted at
\* most once (each loop iteration inserts its own chunk, once); the operation
\* that fails is the last one issued, apart from the rollback that follows a
\* failed insert; nothing is inserted or committed after a failure, and a
\* failed Connect is not followed by Copy.
SingleOps ==
  {"connect source", "connect dest", "has table", "introspect", "ddl", "read",
   "begin", "commit", "rollback"}

LastOps(n) ==
  IF Len(ops) >= n THEN SubSeq(ops, Len(ops) - n + 1, Len(ops)) ELSE << >>

ChunkOfIteration(k) ==
  SubSeq(records, (k - 1) * BatchSize + 1, Min(k * BatchSize, Len(records)))

NoRowTwice(rows) ==
  \A j, k \in 1..Len(rows) : j # k => rows[j] # rows[k]

C14_FailFastNoRetry ==
  /\ \A op \in SingleOps : Count(op) <= 1
  /\ Count("insert") = Len(creates)
  /\ \A k \in 1..Len(creates) : creates[k] = ChunkOfIteration(k)
  /\ (BatchSize >= 1 => NoRowTwice(Flatten(creates)))
  /\ Count("insert") <= Len(progress) + 1
  /\ (retErr # nil => Returned)
  /\ (InsertFailed =>
        /\ retErr = ErrInsert
        /\ LastOps(2) = <<"insert", "rollback">>
        /\ Count("commit") = 0)
  /\ (retErr = ErrConnectSource => ops = <<"connect source">>)
  /\ (retErr = ErrConnectDest => ops = <<"connect source", "connect dest">>)
  /\ (retErr = ErrSchema(build) => LastOps(1) = <<"introspect">>)
  /\ (retErr = ErrCreateTable => LastOps(1) = <<"ddl">>)
  /\ (retErr = ErrRead => LastOps(1) = <<"read">>)
  /\ (retErr = ErrInsert => InsertFailed)
  /\ (retErr = ErrCommit => LastOps(1) = <<"commit">> /\ txState # "committed")
  /\ (Returned /\ retErr = nil /\ Count("commit") = 1 => LastOps(1) = <<"commit">>)

C14_Witness ==
  /\ retErr = ErrInsert
  /\ pc = "exited"
  /\ ops = <<"connect source", "connect dest", "has table", "read", "begin",
             "insert", "insert", "rollback">>
  /\ Len(progress) = 1
  /\ Len(records) = 4

\* C15: for a SQLite source, getSourceSchema returns one descriptor per
\* catalog column, in catalog order, with the type converted to the
\* destination's dialect, and flags a column as primary key exactly when its
\* catalog rank is not zero (every column of a composite key is flagged).
Introspected == Count("ddl") = 1

C15_SQLitePrimaryKeys ==
  (Introspected /\ sourceDBType = DBTypeSQLite) =>
    /\ Len(columns) = Len(srcCatalog)
    /\ \A k \in 1..Len(columns) :
         /\ columns[k].Name = srcCatalog[k].name
         /\ columns[k].Type = convertDataType(srcCatalog[k].type, sourceDBType, destDBType)
         /\ columns[k].IsPrimary = (srcCatalog[k].pk # 0)

\* C16: when two or more columns of the translated schema are flagged as
\* primary key, the CREATE TABLE statement has exactly one table-level
\* PRIMARY KEY (a, b, ...) clause naming those columns in order, and no column
\* definition carries PRIMARY KEY.
KeyColumns(cols) ==
  LET keep(k) == IF cols[k].IsPrimary THEN <<cols[k].Name>> ELSE << >>
  IN  Flatten([k \in 1..Len(cols) |-> keep(k)])

CarriesPrimaryKey(def) ==
  \E k \in 1..Len(def.tail) : def.tail[k] = " PRIMARY KEY"

KeyClause(names) == [name |-> "PRIMARY KEY", type |-> << >>, tail |-> names]

C16_CompositeKeyClause ==
  (Introspected /\ Len(KeyColumns(columns)) >= 2) =>
    LET stmt == ddlLog[Len(ddlLog)]
        defs == stmt.columnDefs
    IN  /\ Cardinality({k \in 1..Len(defs) : defs[k] = KeyClause(KeyColumns(columns))}) = 1
        /\ \A k \in 1..Len(defs) :
             defs[k] # KeyClause(KeyColumns(columns)) => ~CarriesPrimaryKey(defs[k])

\* C17: the CREATE TABLE statement has one column definition per descriptor,
\* in the order of the introspected columns; each is "<name> <type>", then
\* " PRIMARY KEY" exactly when the column is flagged primary, then " NOT NULL"
\* exactly when it is not nullable; and the text does not depend on whether
\* the destination is SQLite or Postgres.
DocTail(col) ==
  CASE col.IsPrimary /\ ~col.IsNullable  -> <<" PRIMARY KEY", " NOT NULL">>
    [] col.IsPrimary /\ col.IsNullable   -> <<" PRIMARY KEY">>
    [] ~col.IsPrimary /\ ~col.IsNullable -> <<" NOT NULL">>
    [] OTHER                             -> << >>

C17_ColumnDefinitions ==
  Introspected =>
    LET stmt == ddlLog[Len(ddlLog)]
        defs == stmt.columnDefs
    IN  /\ stmt.table = TableName
        /\ Len(columns) = Len(srcCatalog)
        /\ Len(defs) = Len(columns)
        /\ \A k \in 1..Len(defs) :
             /\ columns[k].Name = srcCatalog[k].name
             /\ defs[k].name = columns[k].Name
             /\ defs[k].type = columns[k].Type
             /\ defs[k].tail = DocTail(columns[k])
        /\ createTableSQLFor(build, columns, DBTypeSQLite)
             = createTableSQLFor(build, columns, DBTypePostgres)

C17_Witness ==
  /\ Introspected
  /\ build = "catalog"
  /\ destDBType = DBTypeSQLite
  /\ sourceDBType = DBTypePostgres
  /\ Len(columns) = 2
  /\ ddlLog[1].columnDefs[1].tail = <<" PRIMARY KEY">>
  /\ ddlLog[1].columnDefs[2].tail = <<" PRIMARY KEY", " NOT NULL">>
  /\ ddlLog[1].columnDefs[2].type = kwTEXT

====
